---- MODULE Spec2Model ----
(***************************************************************************)
(* SiroMix: the exam mixing algorithm (lib/mixAlgorithm.ts) and the answer *)
(* key table (pages/MixedResult/components/AnswerKeyTable.tsx).            *)
(*                                                                         *)
(* JavaScript numbers are IEEE-754 doubles.  Every number the algorithm    *)
(* computes with is integer valued, so a number is modelled as a sign and  *)
(* a magnitude; the magnitude is a little-endian sequence of 16-bit limbs, *)
(* because the products of the generator exceed 32 bits, and every         *)
(* arithmetic result is rounded to the 53 significant bits of a double.    *)
(***************************************************************************)
EXTENDS Integers, Sequences, FiniteSets

(***************************************************************************)
(* Bounds of the model.                                                    *)
(***************************************************************************)
\* longest array handed to shuffleArray on its own
MaxLen == 3
\* most values drawn from one generator
MaxStream == 3
\* most questions of a parsed document
MaxQuestions == 2
\* most variants requested from mixExam
MaxVariants == 2
\* most milliseconds the wall clock advances while mixExam runs
MaxClockAdvance == 1
\* calls of shuffleArray a caller makes with the same array and seed
MaxCalls == 2
\* the largest variant count typed into the start form when the codes are
\* filled in for it
MaxCodes == 33
\* most job ids drawn for analyses while the pages are used
MaxJobs == 3

(***************************************************************************)
(* Magnitudes: naturals as six limbs of 16 bits, least significant first.  *)
(***************************************************************************)
Base == 2^16

ZeroMag == <<0, 0, 0, 0, 0, 0>>

LimbIdx == DOMAIN ZeroMag

\* the magnitude of a natural below 2^31
MagFromInt(n) ==
    [k \in LimbIdx |-> IF k = 1 THEN n % Base ELSE IF k = 2 THEN n \div Base ELSE 0]

RECURSIVE MulFrom(_, _, _, _)
\* the limbs k.. of x * m + carry * Base^(k-1), for a factor m below 2^15
MulFrom(x, m, k, carry) ==
    IF k > Len(x) THEN <<>>
    ELSE LET t == x[k] * m + carry
         IN  <<t % Base>> \o MulFrom(x, m, k + 1, t \div Base)

MagMulSmall(x, m) == MulFrom(x, m, 1, 0)

RECURSIVE AddFrom(_, _, _, _)
AddFrom(x, y, k, carry) ==
    IF k > Len(x) THEN <<>>
    ELSE LET t == x[k] + y[k] + carry
         IN  <<t % Base>> \o AddFrom(x, y, k + 1, t \div Base)

MagAdd(x, y) == AddFrom(x, y, 1, 0)

RECURSIVE SubFrom(_, _, _, _)
SubFrom(x, y, k, borrow) ==
    IF k > Len(x) THEN <<>>
    ELSE LET t == x[k] - y[k] - borrow
         IN  <<(t + Base) % Base>> \o SubFrom(x, y, k + 1, IF t < 0 THEN 1 ELSE 0)

\* x - y for x >= y
MagSub(x, y) == SubFrom(x, y, 1, 0)

MagShiftLimbs(x, s) == [k \in LimbIdx |-> IF k > s THEN x[k - s] ELSE 0]

MagLess(x, y) ==
    \E k \in LimbIdx : x[k] < y[k] /\ \A j \in LimbIdx : j > k => x[j] = y[j]

RECURSIVE LimbBits(_)
\* number of significant bits of a limb
LimbBits(v) == IF v = 0 THEN 0 ELSE 1 + LimbBits(v \div 2)

RECURSIVE TopFrom(_, _)
TopFrom(x, k) == IF k = 0 THEN 0 ELSE IF x[k] # 0 THEN k ELSE TopFrom(x, k - 1)

\* the highest limb that is not zero, 0 when there is none
TopLimb(x) == TopFrom(x, Len(x))

BitLen(x) ==
    LET top == TopLimb(x)
    IN  IF top = 0 THEN 0 ELSE 16 * (top - 1) + LimbBits(x[top])

Bit(x, b) == (x[(b \div 16) + 1] \div 2^(b % 16)) % 2

MagPow2(b) == [k \in LimbIdx |-> IF k = (b \div 16) + 1 THEN 2^(b % 16) ELSE 0]

\* x with its d low bits cleared
MagClearLow(x, d) ==
    [k \in LimbIdx |->
        IF 16 * k <= d THEN 0
        ELSE IF 16 * (k - 1) >= d THEN x[k]
        ELSE x[k] - (x[k] % 2^(d - 16 * (k - 1)))]

\* An integer rounded to the nearest double (53 significant bits, ties to even).
Round53(x) ==
    IF BitLen(x) <= 53 THEN x
    ELSE LET d == BitLen(x) - 53
             guard == Bit(x, d - 1) = 1
             sticky == \E b \in 0..(d - 1) : b < d - 1 /\ Bit(x, b) = 1
             odd == Bit(x, d) = 1
             down == MagClearLow(x, d)
         IN  IF guard /\ (sticky \/ odd) THEN MagAdd(down, MagPow2(d)) ELSE down

(***************************************************************************)
(* Numbers: integer valued doubles.                                        *)
(***************************************************************************)
Num(neg, mag) == [neg |-> neg /\ mag # ZeroMag, mag |-> mag]

NumFromInt(n) == IF n < 0 THEN Num(TRUE, MagFromInt(0 - n)) ELSE Num(FALSE, MagFromInt(n))

\* a + b in double arithmetic
NumAdd(a, b) ==
    IF a.neg = b.neg THEN Num(a.neg, Round53(MagAdd(a.mag, b.mag)))
    ELSE IF MagLess(a.mag, b.mag) THEN Num(b.neg, Round53(MagSub(b.mag, a.mag)))
    ELSE Num(a.neg, Round53(MagSub(a.mag, b.mag)))

(***************************************************************************)
(* seededRandom: the linear congruential generator.                        *)
(***************************************************************************)
LcgA == 1664525

LcgC == 1013904223

\* state * 1664525 in double arithmetic
NumMulA(s) ==
    Num(s.neg, Round53(MagAdd(MagMulSmall(s.mag, LcgA % Base),
                              MagShiftLimbs(MagMulSmall(s.mag, LcgA \div Base), 1))))

\* JavaScript's x % 2 ** 32: the remainder keeps the sign of the dividend
NumRem32(x) == Num(x.neg, [k \in LimbIdx |-> IF k <= 2 THEN x.mag[k] ELSE 0])

\* state = (state * 1664525 + 1013904223) % 2 ** 32, every operation rounded
LcgNextRounded(state) == NumRem32(NumAdd(NumMulA(state), NumFromInt(LcgC)))

\* the same for 0 <= state < 2^32: the sum is below 2^53, so no operation
\* rounds and the remainder is the two low limbs of the exact sum
LcgNextExact(state) ==
    LET lo == state.mag[1] * (LcgA % Base) + (LcgC % Base)
        hi == state.mag[2] * (LcgA % Base) + state.mag[1] * (LcgA \div Base)
                + (LcgC \div Base) + (lo \div Base)
    IN  Num(FALSE, <<lo % Base, hi % Base, 0, 0, 0, 0>>)

LcgNext(state) ==
    IF ~state.neg /\ TopLimb(state.mag) <= 2 THEN LcgNextExact(state)
    ELSE LcgNextRounded(state)

\* Math.floor(rng() * n) for the value rng() = state / 2 ** 32 and 1 <= n < 2^15
FloorScaled(state, n) ==
    LET lo == state.mag[1] * n
        mid == state.mag[2] * n + (lo \div Base)
        q == mid \div Base
        exact == (lo % Base = 0) /\ (mid % Base = 0)
    IN  IF state.neg THEN 0 - (IF exact THEN q ELSE q + 1) ELSE q

(***************************************************************************)
(* shuffleArray: Fisher-Yates over a copy of the array.  A JavaScript      *)
(* array is its properties: the indices 0..n-1 and whatever other keys an  *)
(* assignment creates; reading a key that was never set gives undefined.   *)
(***************************************************************************)
Undefined == "undefined"

ArrayKeys(n) == (0 - n)..(n - 1)

\* const shuffled = [...array]
SpreadCopy(array) ==
    [p \in ArrayKeys(Len(array)) |-> IF p >= 0 THEN array[p + 1] ELSE Undefined]

\* a swap that loses the write of position j
SwapKeysLost(shuffled, i, j) == [shuffled EXCEPT ![i] = shuffled[j]]

\* [shuffled[i], shuffled[j]] = [shuffled[j], shuffled[i]]
SwapKeys(shuffled, i, j) == [shuffled EXCEPT ![i] = shuffled[j], ![j] = shuffled[i]]

\* the locals of a call, at the loop head
ShuffleEnter(arr, s) ==
    [shuffled |-> SpreadCopy(arr), state |-> s, i |-> Len(arr) - 1, n |-> Len(arr), j |-> 0]

\* for (...; i > 0; ...)
ShuffleLooping(loc) == loc.i > 0

\* one iteration: j = Math.floor(rng() * (i + 1)); swap; i--
ShuffleIteration(loc) ==
    LET next == LcgNext(loc.state)
        drawn == FloorScaled(next, loc.i + 1)
    IN  [shuffled |-> SwapKeys(loc.shuffled, loc.i, drawn),
         state |-> next, i |-> loc.i - 1, n |-> loc.n, j |-> drawn]

\* return shuffled: the elements at the indices 0..length-1
ShuffleValue(loc) == [k \in 1..loc.n |-> loc.shuffled[k - 1]]

RECURSIVE ShuffleSteps(_, _)
\* the locals after n more iterations, n >= 1, or when the loop ends before:
\* the first half of the iterations, then the rest
ShuffleSteps(loc, n) ==
    IF n = 1 THEN ShuffleIteration(loc)
    ELSE LET half == ShuffleSteps(loc, n \div 2)
         IN  IF ShuffleLooping(half) THEN ShuffleSteps(half, n - (n \div 2)) ELSE half

\* the locals when the loop ends: i counts down to 0 by one, so the loop
\* runs i more times
ShuffleRun(loc) == IF ShuffleLooping(loc) THEN ShuffleSteps(loc, loc.i) ELSE loc

shuffleArray(arr, s) == ShuffleValue(ShuffleRun(ShuffleEnter(arr, s)))

\* the caller's array after a call that shuffled it in place
CallerArrayAliased(arr, loc) == ShuffleValue(loc)

\* the caller's array after a call: shuffleArray works on a copy
CallerArray(arr, loc) == arr

(***************************************************************************)
(* shuffleOptions: shuffle the options, relabel them by position and       *)
(* record the original label of each position in a Map.                    *)
(***************************************************************************)
\* const labels = ["A", "B", "C", "D", "E", "F"]
labels == <<"A", "B", "C", "D", "E", "F">>

\* labels[idx], idx counted from 0; undefined past the end of the array
LabelAt(idx) == IF idx + 1 \in DOMAIN labels THEN labels[idx + 1] ELSE Undefined

\* the Map after mapping.set(opt.label, newLabel) for each position in turn:
\* a key's value is the one set last
MappingOf(shuffled) ==
    [key \in {shuffled[k].label : k \in DOMAIN shuffled} |->
        LabelAt((CHOOSE k \in DOMAIN shuffled :
                    /\ shuffled[k].label = key
                    /\ \A h \in DOMAIN shuffled : shuffled[h].label = key => h <= k) - 1)]

\* mapping.get(key)
MapGet(mapping, key) == IF key \in DOMAIN mapping THEN mapping[key] ELSE Undefined

\* an option that records its new label as its original one
MixedOptionOfRelabelled(opt, idx) ==
    [label |-> LabelAt(idx), originalLabel |-> LabelAt(idx), content |-> opt.content]

\* one element of shuffled.map(...)
MixedOptionOf(opt, idx) ==
    [label |-> LabelAt(idx), originalLabel |-> opt.label, content |-> opt.content]

shuffleOptions(options, s) ==
    LET shuffled == shuffleArray(options, s)
    IN  [shuffled |-> [k \in DOMAIN shuffled |-> MixedOptionOf(shuffled[k], k - 1)],
         mapping |-> MappingOf(shuffled)]

(***************************************************************************)
(* mixExam: the body of one iteration of the variant loop.                 *)
(***************************************************************************)
\* a || b on strings and undefined: b when a is undefined or empty
OrElse(a, b) == IF a = Undefined \/ a = "" THEN b ELSE a

\* the position counted from 0
DisplayNumberZeroBased(idx) == idx

\* displayNumber: idx + 1
DisplayNumber(idx) == idx + 1

\* seed + idx, the seed of the options of the question at index idx
OptionSeed(s, idx) == NumAdd(s, NumFromInt(idx))

\* the seeds one iteration of the variant loop hands to shuffleOptions, by index
OptionSeedsOf(s, n) == [k \in 1..n |-> OptionSeed(s, k - 1)]

\* the body of shuffledQuestions.forEach((q, idx) => ...)
MixedQuestionOf(q, idx, s) ==
    LET so == shuffleOptions(q.options, OptionSeed(s, idx))
        newCorrectLabel == OrElse(MapGet(so.mapping, q.correct_label), q.correct_label)
    IN  [originalNumber |-> q.number,
         displayNumber |-> DisplayNumber(idx),
         stem |-> q.stem,
         options |-> so.shuffled,
         correctAnswer |-> newCorrectLabel]

\* mixedQuestions after the forEach over shuffleArray(parsedDoc.questions, seed)
MixedQuestionsOf(doc, s) ==
    LET shuffledQuestions == shuffleArray(doc.questions, s)
    IN  [k \in DOMAIN shuffledQuestions |-> MixedQuestionOf(shuffledQuestions[k], k - 1, s)]

\* { examCode: examCodes[v], questions: mixedQuestions }
MixedExamOf(doc, s, codes, vIdx) ==
    [examCode |-> codes[vIdx + 1], questions |-> MixedQuestionsOf(doc, s)]

\* a question after shuffleOptions(q.options, seed) was called on it
QuestionAfterMix(q, s) ==
    [q EXCEPT !.options = CallerArray(q.options, ShuffleRun(ShuffleEnter(q.options, s)))]

\* parsedDoc after one iteration of the variant loop: its arrays were handed
\* to shuffleArray, the questions with seed and the options of the question
\* that came out at index idx with seed + idx
DocAfterMix(doc, s) ==
    LET loc == ShuffleRun(ShuffleEnter(doc.questions, s))
        questions == CallerArray(doc.questions, loc)
        indexOf(q) == CHOOSE k \in 1..loc.n : loc.shuffled[k - 1] = q
    IN  [questions |->
            [k \in DOMAIN questions |->
                QuestionAfterMix(questions[k], OptionSeed(s, indexOf(questions[k]) - 1))]]

(***************************************************************************)
(* generateExamCodes: a Set of random three digit codes, in insertion      *)
(* order.                                                                  *)
(***************************************************************************)
\* n.toString() for 100 <= n <= 999: the three decimal digits
ToString(n) == <<n \div 100, (n \div 10) % 10, n % 10>>

\* Math.floor(100 + Math.random() * 900).toString(), for Math.random()
\* falling in the bucket [k/900, (k+1)/900)
generateExamCode(k) == ToString(100 + k)

\* an array in place of the Set: push keeps every copy
SetAddPush(codes, code) == Append(codes, code)

\* codes.add(code): a Set keeps one copy
SetAdd(codes, code) ==
    IF \E k \in DOMAIN codes : codes[k] = code THEN codes ELSE Append(codes, code)

\* while (codes.size < count)
CodesWanted(codes, count) == Len(codes) < count

\* the number of codes generateExamCode can return: 100 .. 999
CodeSpace == 900

(***************************************************************************)
(* AnswerKeyTable: one row per question position, one cell per variant.    *)
(***************************************************************************)
\* a lookup by originalNumber in place of displayNumber
FindQuestionByOriginal(exam, questionNumber) ==
    IF \E k \in DOMAIN exam.questions : exam.questions[k].originalNumber = questionNumber
    THEN CHOOSE k \in DOMAIN exam.questions :
            /\ exam.questions[k].originalNumber = questionNumber
            /\ \A h \in DOMAIN exam.questions :
                  exam.questions[h].originalNumber = questionNumber => k <= h
    ELSE 0

\* exam.questions.find((q) => q.displayNumber === questionNumber): the position
\* of the first match, 0 when find returns undefined
FindQuestion(exam, questionNumber) ==
    IF \E k \in DOMAIN exam.questions : exam.questions[k].displayNumber = questionNumber
    THEN CHOOSE k \in DOMAIN exam.questions :
            /\ exam.questions[k].displayNumber = questionNumber
            /\ \A h \in DOMAIN exam.questions :
                  exam.questions[h].displayNumber = questionNumber => k <= h
    ELSE 0

\* question?.correctAnswer || "-"
CellOf(exam, questionNumber) ==
    LET found == FindQuestion(exam, questionNumber)
    IN  IF found = 0 THEN "-" ELSE OrElse(exam.questions[found].correctAnswer, "-")

\* originalAnswers[idx] || "-"
OriginalCell(originalAnswers, idx) ==
    IF idx + 1 \in DOMAIN originalAnswers THEN OrElse(originalAnswers[idx + 1], "-") ELSE "-"

\* mixedExams[0]?.questions.length || 0
NumQuestions(mixedExams) == IF mixedExams = <<>> THEN 0 ELSE Len(mixedExams[1].questions)

AnswerKeyTable(mixedExams, originalAnswers) ==
    [r \in 1..NumQuestions(mixedExams) |->
        [questionNumber |-> r,
         original |-> OriginalCell(originalAnswers, r - 1),
         cells |-> [e \in DOMAIN mixedExams |-> CellOf(mixedExams[e], r)]]]

\* parsedData?.questions.map((q) => q.correct_label) || []
OriginalAnswers(doc) == [k \in DOMAIN doc.questions |-> doc.questions[k].correct_label]

(***************************************************************************)
(* Inputs.                                                                 *)
(***************************************************************************)
\* seeds handed to shuffleArray and seededRandom on their own: small, negative,
\* a wall-clock reading, and the largest integers a double holds exactly
SeedSamples ==
    {NumFromInt(0), NumFromInt(1), NumFromInt(42), NumFromInt(43),
     NumFromInt(0 - 1), NumFromInt(0 - 610), NumFromInt(0 - 1000),
     Num(FALSE, <<1152, 38706, 417, 0, 0, 0>>),
     Num(FALSE, <<65535, 65535, 65535, 31, 0, 0>>)}

Elems == {"a", "b"}

Arrays == UNION {[1..n -> Elems] : n \in 0..MaxLen}

\* Date.now() when the run starts: 1793538000000 ms
ClockBase == Num(FALSE, <<1152, 38706, 417, 0, 0, 0>>)

\* labels the parser gives the options of a question, in document order
SourceLabels == <<"A", "B", "C", "D", "E", "F", "G", "H">>

\* a question with m options whose correct_label is the c-th source label,
\* or the empty string when c is 0
QuestionOf(number, m, c) ==
    [number |-> number,
     stem |-> <<"stem", number>>,
     options |-> [k \in 1..m |->
        [label |-> SourceLabels[k], locked |-> FALSE, content |-> <<number, SourceLabels[k]>>]],
     correct_label |-> IF c = 0 THEN "" ELSE SourceLabels[c]]

\* the correct label is empty, the first option, the last option, or a label
\* that no option has
CorrectChoices(m) == {0, 1, m, m + 1}

DocsOf(n, m) ==
    {[questions |-> [k \in 1..n |-> QuestionOf(k, m, c[k])]] : c \in [1..n -> CorrectChoices(m)]}

\* option counts: two, four, as many as there are labels, and one more
OptionCounts == {2, 4, Len(labels), Len(labels) + 1}

\* parsed documents: n questions numbered 1..n with m options each
ParsedDocs == UNION {DocsOf(n, m) : n \in 0..MaxQuestions, m \in OptionCounts}

\* variant counts handed to mixExam: a negative one, none, and up to MaxVariants
VariantCounts == (0 - 1)..MaxVariants

\* the buckets floor(Math.random() * 900) falls in: the two lowest and the highest
RandomBuckets == {0, 1, 899}

(***************************************************************************)
(* MixStartPage: the start form, its validation and the store.  A string   *)
(* of the form is the sequence of its characters.                          *)
(***************************************************************************)
RECURSIVE TrimStart(_)
TrimStart(s) == IF s # <<>> /\ Head(s) = " " THEN TrimStart(Tail(s)) ELSE s

RECURSIVE TrimEnd(_)
TrimEnd(s) ==
    IF s # <<>> /\ s[Len(s)] = " " THEN TrimEnd(SubSeq(s, 1, Len(s) - 1)) ELSE s

\* s.trim()
Trim(s) == TrimEnd(TrimStart(s))

Digits == <<"0", "1", "2", "3", "4", "5", "6", "7", "8", "9">>

IsDigit(c) == \E d \in DOMAIN Digits : Digits[d] = c

DigitValue(c) == (CHOOSE d \in DOMAIN Digits : Digits[d] = c) - 1

RECURSIVE ParseDigits(_, _)
\* the value of the longest run of digits s starts with, after acc
ParseDigits(s, acc) ==
    IF s # <<>> /\ IsDigit(Head(s))
    THEN ParseDigits(Tail(s), 10 * acc + DigitValue(Head(s)))
    ELSE acc

\* the result of parseInt when no digit could be read
NaN == [nan |-> TRUE, value |-> 0]

\* parseInt(s, 10): white space is skipped, then a sign and the longest run
\* of digits are read; what follows the digits is ignored
parseInt(s) ==
    LET t == TrimStart(s)
        signed == t # <<>> /\ Head(t) \in {"-", "+"}
        body == IF signed THEN Tail(t) ELSE t
        magnitude == ParseDigits(body, 0)
    IN  IF body = <<>> \/ ~IsDigit(Head(body)) THEN NaN
        ELSE [nan |-> FALSE,
              value |-> IF signed /\ Head(t) = "-" THEN 0 - magnitude ELSE magnitude]

RECURSIVE String(_)
\* String(n) for an integer n >= 0: its decimal digits
String(n) ==
    IF n < 10 THEN <<Digits[n + 1]>> ELSE String(n \div 10) \o <<Digits[(n % 10) + 1]>>

\* x || d for a number: d when x is 0
NumberOr(x, d) == IF x = 0 THEN d ELSE x

DEFAULT_NUM_VARIANTS == 4

DEFAULT_DURATION == 90

DEFAULT_EXAM_CODES ==
    <<String(132), String(209), String(357), String(485)>>

\* DEFAULT_EXAM_CODES[i] || String(100 + i), i counted from 0
DefaultCodeAt(i) ==
    IF i + 1 \in DOMAIN DEFAULT_EXAM_CODES THEN DEFAULT_EXAM_CODES[i + 1] ELSE String(100 + i)

\* an effect that fills the list of codes up and never cuts it
ResizeCodesGrowOnly(numVariants, examCodes) ==
    LET parsedNumVariants == parseInt(numVariants)
    IN  IF parsedNumVariants.nan \/ parsedNumVariants.value < Len(examCodes) THEN examCodes
        ELSE [k \in 1..parsedNumVariants.value |->
                IF k <= Len(examCodes) THEN examCodes[k] ELSE DefaultCodeAt(k - 1)]

\* the effect that follows a change of numVariants or examCodes: the list of
\* codes is cut or filled up to the number typed, once that parses
ResizeCodes(numVariants, examCodes) ==
    LET parsedNumVariants == parseInt(numVariants)
    IN  IF parsedNumVariants.nan THEN examCodes
        ELSE [k \in 1..parsedNumVariants.value |->
                IF k <= Len(examCodes) THEN examCodes[k] ELSE DefaultCodeAt(k - 1)]

\* the messages of the error modal: a fixed text each, with the values the
\* text is built from (none)
MsgExamName == [text |-> "Vui long nhap ten ki thi.", names |-> <<>>]

MsgSubject == [text |-> "Vui long nhap mon thi.", names |-> <<>>]

MsgDuration == [text |-> "Thoi gian thi phai la so hop le va lon hon 0.", names |-> <<>>]

MsgSchoolName == [text |-> "Vui long nhap ten truong.", names |-> <<>>]

MsgNumVariants == [text |-> "So luong de phai la so hop le va lon hon 0.", names |-> <<>>]

MsgEmptyCode == [text |-> "Vui long nhap day du ma de.", names |-> <<>>]

MsgDuplicateCode == [text |-> "Ma de khong duoc trung nhau.", names |-> <<>>]

MsgNoFile == [text |-> "Vui long chon file .docx truoc khi tiep tuc.", names |-> <<>>]

MsgInvalidPath ==
    [text |-> "Khong lay duoc duong dan file nguon tu input.", names |-> <<>>]

MsgAnalysisFailed == [text |-> "Phan tich de khong thanh cong.", names |-> <<>>]

\* examCodes.map(c => c.trim())
TrimmedCodes(examCodes) == [k \in DOMAIN examCodes |-> Trim(examCodes[k])]

\* new Set(trimmedCodes).size
SetSize(codes) == Cardinality({codes[k] : k \in DOMAIN codes})

\* the checks of validateAndSaveMetadata in their order: the message of the
\* first that fails, <<>> when none does
ValidationError(f) ==
    IF Trim(f.examName) = <<>> THEN <<MsgExamName>>
    ELSE IF Trim(f.subject) = <<>> THEN <<MsgSubject>>
    ELSE IF parseInt(f.duration).nan \/ parseInt(f.duration).value < 1 THEN <<MsgDuration>>
    ELSE IF Trim(f.schoolName) = <<>> THEN <<MsgSchoolName>>
    ELSE IF parseInt(f.numVariants).nan \/ parseInt(f.numVariants).value < 1
         THEN <<MsgNumVariants>>
    ELSE IF \E k \in DOMAIN f.examCodes : Trim(f.examCodes[k]) = <<>> THEN <<MsgEmptyCode>>
    ELSE IF SetSize(TrimmedCodes(f.examCodes)) # Len(f.examCodes) THEN <<MsgDuplicateCode>>
    ELSE <<>>

\* the metadata validateAndSaveMetadata builds from the form
MetadataOf(f) ==
    [examName |-> Trim(f.examName),
     subject |-> Trim(f.subject),
     gradeLevel |-> Trim(f.gradeLevel),
     durationMinutes |-> parseInt(f.duration).value,
     schoolName |-> Trim(f.schoolName),
     numVariants |-> parseInt(f.numVariants).value,
     customExamCodes |-> TrimmedCodes(f.examCodes)]

\* setExamMetadata(metadata)
setExamMetadata(st, metadata) ==
    [st EXCEPT !.examMetadata = <<metadata>>, !.numVariants = metadata.numVariants]

\* setSelectedFile(path)
setSelectedFile(st, path) == [st EXCEPT !.selectedFilePath = path]

\* setJobId(id)
setJobId(st, id) == [st EXCEPT !.jobId = id]

\* setParsedData(data)
setParsedData(st, data) == [st EXCEPT !.parsedData = data]

\* setIsAnalyzing(analyzing)
setIsAnalyzing(st, analyzing) == [st EXCEPT !.isAnalyzing = analyzing]

\* a setMixedExams that stores nothing
setMixedExamsDropped(st, exams) == st

\* setMixedExams(exams)
setMixedExams(st, exams) == [st EXCEPT !.mixedExams = exams]

\* setNumVariants(num)
setNumVariants(st, num) == [st EXCEPT !.numVariants = num]

\* reset()
reset(st) ==
    [st EXCEPT !.selectedFilePath = <<>>, !.jobId = <<>>, !.examMetadata = <<>>,
               !.numVariants = DEFAULT_NUM_VARIANTS]

\* the store as it is created
InitialStore ==
    [selectedFilePath |-> <<>>, jobId |-> <<>>, parsedData |-> <<>>,
     isAnalyzing |-> FALSE, mixedExams |-> <<>>, examMetadata |-> <<>>,
     numVariants |-> DEFAULT_NUM_VARIANTS]

\* the form as the page mounts it from the store's metadata, after the
\* effects that restore the file and size the list of codes
MountedForm(st) ==
    LET cachedMetadata == st.examMetadata
        cached == cachedMetadata # <<>>
        numVariants ==
            String(IF cached THEN NumberOr(cachedMetadata[1].numVariants, DEFAULT_NUM_VARIANTS)
                   ELSE DEFAULT_NUM_VARIANTS)
        examCodes ==
            IF cached THEN cachedMetadata[1].customExamCodes
            ELSE SubSeq(DEFAULT_EXAM_CODES, 1, DEFAULT_NUM_VARIANTS)
    IN  [examName |-> IF cached THEN cachedMetadata[1].examName ELSE <<>>,
         subject |-> IF cached THEN cachedMetadata[1].subject ELSE <<>>,
         gradeLevel |-> IF cached THEN cachedMetadata[1].gradeLevel ELSE <<>>,
         duration |->
            String(IF cached THEN NumberOr(cachedMetadata[1].durationMinutes, DEFAULT_DURATION)
                   ELSE DEFAULT_DURATION),
         schoolName |-> IF cached THEN cachedMetadata[1].schoolName ELSE <<>>,
         numVariants |-> numVariants,
         examCodes |-> ResizeCodes(numVariants, examCodes),
         hasFile |-> st.selectedFilePath # <<>>,
         sourcePath |-> st.selectedFilePath]

\* the page as it is shown first: the form, no modal
StartView ==
    [route |-> "start", jobId |-> <<>>, isErrorModalOpen |-> FALSE, errorMessage |-> <<>>]

\* setErrorMessage(msg); setIsErrorModalOpen(true)
ShowError(vw, msg) == [vw EXCEPT !.errorMessage = <<msg>>, !.isErrorModalOpen = TRUE]

\* a clearAnalysis() that forgets the parsed document and the mixed exams
clearAnalysisJobOnly(st) == [st EXCEPT !.jobId = <<>>]

\* clearAnalysis()
clearAnalysis(st) == [st EXCEPT !.jobId = <<>>, !.parsedData = <<>>, !.mixedExams = <<>>]

\* handlePickFile after the dialog returned: selected is the path chosen,
\* <<>> when the dialog was cancelled
FormAfterPick(f, selected) ==
    IF selected = <<>> THEN f ELSE [f EXCEPT !.sourcePath = selected, !.hasFile = TRUE]

\* the store after it: seen is the selectedFilePath the handler compares with,
\* the one of the render it was created in
StoreAfterPick(st, selected, seen) ==
    IF selected = <<>> THEN st
    ELSE [(IF selected # seen THEN clearAnalysis(st) ELSE st) EXCEPT !.selectedFilePath = selected]

\* the store after validateAndSaveMetadata returned true
StoreAfterValidation(st, f) == setExamMetadata(st, MetadataOf(f))

\* what handleSubmit does after validateAndSaveMetadata, by the form and the
\* store of the render it was created in
SubmitBranch(f, st) ==
    IF ValidationError(f) # <<>> THEN "invalid"
    ELSE IF ~f.hasFile THEN "noFile"
    ELSE IF f.sourcePath = <<>> THEN "noPath"
    ELSE IF st.jobId # <<>> /\ st.selectedFilePath = f.sourcePath THEN "cached"
    ELSE "analyze"

\* the outcomes of an awaited call of analyze_docx: result.ok, a result that
\* is not ok, an exception
AnalysisOutcomes == {"ok", "notOk", "throws"}

\* the message of an exception the backend raises
MsgThrown == [text |-> "analyze_docx failed", names |-> <<>>]

\* analyze up to its await: setIsAnalyzing(true); setError(null)
HookAtAnalysis(hk) == [hk EXCEPT !.isAnalyzing = TRUE, !.error = <<>>]

\* an analyze whose catch block leaves isAnalyzing as it is
HookAfterAnalysisStuck(hk, outcome) ==
    IF outcome = "ok" THEN [hk EXCEPT !.isAnalyzing = FALSE]
    ELSE IF outcome = "notOk"
    THEN [hk EXCEPT !.isAnalyzing = FALSE, !.error = <<MsgAnalysisFailed>>]
    ELSE [hk EXCEPT !.error = <<MsgThrown>>]

\* analyze after its await
HookAfterAnalysis(hk, outcome) ==
    IF outcome = "ok" THEN [hk EXCEPT !.isAnalyzing = FALSE]
    ELSE IF outcome = "notOk"
    THEN [hk EXCEPT !.isAnalyzing = FALSE, !.error = <<MsgAnalysisFailed>>]
    ELSE [hk EXCEPT !.isAnalyzing = FALSE, !.error = <<MsgThrown>>]

\* if (result.ok) setJobId(result.jobId)
StoreAfterAnalysis(st, outcome, jobId) ==
    IF outcome = "ok" THEN [st EXCEPT !.jobId = <<jobId>>] ELSE st

\* the effect that shows the hook's error in the modal
ViewAfterAnalysis(vw, hk) ==
    IF hk.error # <<>> THEN ShowError(vw, hk.error[1]) ELSE vw

\* crypto.randomUUID(): an id no earlier call returned
FreshJobId(jobs) == Len(jobs) + 1

\* the document get_parsed returns for a job
ParsedOf(jobId) == [job |-> jobId]

\* navigate(`/preview/${jobId}`), jobId given as <<id>>; without an id the
\* path matches no route
Navigate(vw, jobId) ==
    IF jobId = <<>> THEN [vw EXCEPT !.route = "none", !.jobId = <<>>]
    ELSE [vw EXCEPT !.route = "preview", !.jobId = jobId]

\* PreviewPage's loading effect: the cached document when the store has one,
\* a call of get_parsed otherwise
PreviewAfterEffect(pv, st) ==
    IF st.parsedData # <<>>
    THEN [pv EXCEPT !.parsed = st.parsedData, !.loading = FALSE]
    ELSE [pv EXCEPT !.loading = TRUE, !.error = <<>>]

\* the calls of get_parsed awaited after that effect ran for the route's job
FetchesAfterEffect(fetches, st, jobId) ==
    IF jobId = <<>> \/ st.parsedData # <<>> THEN fetches
    ELSE fetches \cup {[jobId |-> jobId[1], cancelled |-> FALSE]}

\* the effect's cleanup: isCancelled = true
FetchesCancelled(fetches) == {[r EXCEPT !.cancelled = TRUE] : r \in fetches}

\* the arguments handleConfirmMix hands to mixExams, which passes them on to
\* the backend command mix_exams
MixArgs(parsed, numVariants) == [parsedDoc |-> parsed, numVariants |-> numVariants]

\* what mix_exams answers: one variant per variant asked for, each with a
\* code the backend generates, here the codes from 100 + base on
BackendMix(args, base) ==
    [k \in 1..args.numVariants |->
        [examCode |-> String(100 + base + k - 1), job |-> args.parsedDoc.job]]

\* where the generated codes start: at 100 and at 101
MixBases == {0, 1}

\* MixedResultPage: without mixed exams it redirects to the preview of the
\* store's job
ResultGuard(vw, st) ==
    IF vw.route = "result" /\ (st.mixedExams = <<>> \/ st.mixedExams[1] = <<>>)
    THEN Navigate(vw, st.jobId)
    ELSE vw

\* useExamAnalysis as a page creates it
InitialHook == [isAnalyzing |-> FALSE, error |-> <<>>]

\* PreviewPage's state as it is created
InitialPreview ==
    [parsed |-> <<>>, loading |-> TRUE, error |-> <<>>,
     showConfirmModal |-> FALSE, showProgress |-> FALSE]

\* no dialog open and no call to the backend awaited; jobs lists, per job id
\* drawn so far, the path handed to analyze_docx with it
NothingPending ==
    [dialog |-> <<>>, analyses |-> {}, fetches |-> {}, mixes |-> {}, jobs |-> <<>>]

(***************************************************************************)
(* State.                                                                  *)
(***************************************************************************)
VARIABLES
    array,        \* the array a caller hands to shuffleArray
    seed,         \* the seed it hands over with it
    call,         \* <<locals>> of the running shuffleArray call, <<>> when none runs
    returned,     \* what the calls made so far returned, in order
    gens,         \* two generators made by seededRandom(seed): state and values drawn
    parsedDoc,    \* mixExam's parsedDoc
    numVariants,  \* mixExam's numVariants
    pc,           \* where the mixExam run stands
    examCodes,    \* generateExamCodes' Set of codes, in insertion order
    v,            \* the variant loop's counter
    variants,     \* mixExam's variants
    clock,        \* milliseconds the wall clock has advanced since the run started
    table,        \* the rows AnswerKeyTable rendered
    firstRun,     \* <<variants>> an earlier call of mixExam returned, <<>> before
    optionSeeds,  \* per variant built, the seeds handed to shuffleOptions, by index
    form,         \* MixStartPage's form state
    store,        \* the mix store: file path, job, metadata, number of variants
    view,         \* the route shown and MixStartPage's error modal
    hook,         \* useExamAnalysis' state: isAnalyzing and error
    preview,      \* PreviewPage's state
    pending       \* what is awaited: the file dialog, analyses, get_parsed, mix calls

shuffleVars == <<array, seed, call, returned, gens>>

mixVars ==
    <<parsedDoc, numVariants, pc, examCodes, v, variants, clock, table, firstRun, optionSeeds>>

pageVars == <<form, store, view, hook, preview, pending>>

vars == <<array, seed, call, returned, gens,
          parsedDoc, numVariants, pc, examCodes, v, variants, clock, table,
          firstRun, optionSeeds, form, store, view, hook, preview, pending>>

\* seededRandom(s): let state = seed, a fresh variable for every generator
NewGens(s) == [g \in 1..2 |-> [state |-> s, stream |-> <<>>]]

MixIdle ==
    /\ parsedDoc = [questions |-> <<>>]
    /\ numVariants = 0
    /\ pc = "idle"
    /\ examCodes = <<>>
    /\ v = 0
    /\ variants = <<>>
    /\ clock = 0
    /\ table = <<>>
    /\ firstRun = <<>>
    /\ optionSeeds = <<>>

ShuffleIdle ==
    /\ call = <<>>
    /\ returned = <<>>
    /\ gens = NewGens(seed)

\* the start page mounted on a store nothing was saved to
PageIdle ==
    /\ store = InitialStore
    /\ form = MountedForm(InitialStore)
    /\ view = StartView
    /\ hook = InitialHook
    /\ preview = InitialPreview
    /\ pending = NothingPending

(***************************************************************************)
(* shuffleArray and seededRandom on their own: a caller shuffles the same  *)
(* array with the same seed MaxCalls times and draws from two generators.  *)
(***************************************************************************)
InitShuffle ==
    /\ array \in Arrays
    /\ seed \in SeedSamples
    /\ ShuffleIdle
    /\ MixIdle
    /\ PageIdle

ShuffleCall ==
    /\ call = <<>>
    /\ Len(returned) < MaxCalls
    /\ call' = <<ShuffleEnter(array, seed)>>
    /\ UNCHANGED <<array, seed, returned, gens>>
    /\ UNCHANGED mixVars
    /\ UNCHANGED pageVars

ShuffleLoop ==
    /\ call # <<>>
    /\ ShuffleLooping(call[1])
    /\ call' = <<ShuffleIteration(call[1])>>
    /\ UNCHANGED <<array, seed, returned, gens>>
    /\ UNCHANGED mixVars
    /\ UNCHANGED pageVars

ShuffleReturn ==
    /\ call # <<>>
    /\ ~ShuffleLooping(call[1])
    /\ returned' = Append(returned, ShuffleValue(call[1]))
    /\ array' = CallerArray(array, call[1])
    /\ call' = <<>>
    /\ UNCHANGED <<seed, gens>>
    /\ UNCHANGED mixVars
    /\ UNCHANGED pageVars

\* a generator's closure after one call of the function seededRandom returned
GenStore(gs, g, next) ==
    [gs EXCEPT ![g] = [state |-> next, stream |-> Append(gs[g].stream, next)]]

GenNext(g) ==
    /\ Len(gens[g].stream) < MaxStream
    /\ gens' = GenStore(gens, g, LcgNext(gens[g].state))
    /\ UNCHANGED <<array, seed, call, returned>>
    /\ UNCHANGED mixVars
    /\ UNCHANGED pageVars

NextShuffle ==
    \/ ShuffleCall
    \/ ShuffleLoop
    \/ ShuffleReturn
    \/ \E g \in DOMAIN gens : GenNext(g)

SpecShuffle == InitShuffle /\ [][NextShuffle]_vars

(***************************************************************************)
(* A run of mixExam, followed by the result page's answer key table.       *)
(***************************************************************************)
Init ==
    /\ array = <<>>
    /\ seed = NumFromInt(0)
    /\ ShuffleIdle
    /\ MixIdle
    /\ PageIdle

MixExamCall(doc, count) ==
    /\ pc = "idle"
    /\ parsedDoc' = doc
    /\ numVariants' = count
    /\ variants' = <<>>
    /\ examCodes' = <<>>
    /\ v' = 0
    /\ pc' = "codes"
    /\ optionSeeds' = <<>>
    /\ UNCHANGED <<clock, table, firstRun>>
    /\ UNCHANGED shuffleVars
    /\ UNCHANGED pageVars

\* one iteration of generateExamCodes' while loop
GenerateExamCodesLoop ==
    /\ pc = "codes"
    /\ CodesWanted(examCodes, numVariants)
    /\ \E k \in RandomBuckets : examCodes' = SetAdd(examCodes, generateExamCode(k))
    /\ UNCHANGED <<parsedDoc, numVariants, pc, v, variants, clock, table, firstRun, optionSeeds>>
    /\ UNCHANGED shuffleVars
    /\ UNCHANGED pageVars

\* return Array.from(codes)
GenerateExamCodesReturn ==
    /\ pc = "codes"
    /\ ~CodesWanted(examCodes, numVariants)
    /\ pc' = "variants"
    /\ UNCHANGED <<parsedDoc, numVariants, examCodes, v, variants, clock, table, firstRun, optionSeeds>>
    /\ UNCHANGED shuffleVars
    /\ UNCHANGED pageVars

\* an early exit of the loop
VariantLoopRunsShort(vIdx, count) == vIdx + 1 < count

\* for (...; v < numVariants; ...)
VariantLoopRuns(vIdx, count) == vIdx < count

\* one iteration of the variant loop; Date.now() is read once in each
BuildVariant ==
    /\ pc = "variants"
    /\ VariantLoopRuns(v, numVariants)
    /\ \E step \in 0..(MaxClockAdvance - clock) :
          LET now == NumAdd(ClockBase, NumFromInt(clock + step))
              s == NumAdd(now, NumFromInt(v * 1000))
          IN  /\ variants' = Append(variants, MixedExamOf(parsedDoc, s, examCodes, v))
              /\ optionSeeds' =
                    Append(optionSeeds, OptionSeedsOf(s, Len(parsedDoc.questions)))
              /\ parsedDoc' = DocAfterMix(parsedDoc, s)
              /\ clock' = clock + step
    /\ v' = v + 1
    /\ UNCHANGED <<numVariants, pc, examCodes, table, firstRun>>
    /\ UNCHANGED shuffleVars
    /\ UNCHANGED pageVars

\* return variants
MixExamReturn ==
    /\ pc = "variants"
    /\ ~VariantLoopRuns(v, numVariants)
    /\ pc' = "returned"
    /\ UNCHANGED <<parsedDoc, numVariants, examCodes, v, variants, clock, table, firstRun, optionSeeds>>
    /\ UNCHANGED shuffleVars
    /\ UNCHANGED pageVars

\* MixedResultPage renders the table unless mixedExams is empty
RenderAnswerKeyTable ==
    /\ pc = "returned"
    /\ variants # <<>>
    /\ table' = AnswerKeyTable(variants, OriginalAnswers(parsedDoc))
    /\ pc' = "rendered"
    /\ UNCHANGED <<parsedDoc, numVariants, examCodes, v, variants, clock, firstRun, optionSeeds>>
    /\ UNCHANGED shuffleVars
    /\ UNCHANGED pageVars

Next ==
    \/ \E doc \in ParsedDocs, count \in VariantCounts : MixExamCall(doc, count)
    \/ GenerateExamCodesLoop
    \/ GenerateExamCodesReturn
    \/ BuildVariant
    \/ MixExamReturn
    \/ RenderAnswerKeyTable

Spec == Init /\ [][Next]_vars

(***************************************************************************)
(* MixStartPage: the user fills in the form, picks a file and submits.     *)
(***************************************************************************)
\* what the user types into the text and number fields
ExamNameTyped == {<<" ">>, <<"H", "K", "1", " ">>}

SubjectTyped == {<<"T", "o", "a", "n">>}

DurationTyped == {String(0), String(45)}

SchoolNameTyped == {<<"T", "H", "P", "T">>}

NumVariantsTyped == {String(2), String(0), <<>>}

\* an exam code typed: the first default code after a blank, or nothing
ExamCodeTyped == {<<" ">> \o DEFAULT_EXAM_CODES[1], <<>>}

\* the file the dialog returns
PickedPath == <<"exam.docx">>

\* a store persisted by an earlier session: a file, its analysis and metadata
PersistedStore ==
    [selectedFilePath |-> PickedPath,
     jobId |-> <<1>>,
     parsedData |-> <<>>,
     isAnalyzing |-> FALSE,
     mixedExams |-> <<>>,
     examMetadata |->
        <<[examName |-> <<"H", "K", "1">>,
           subject |-> <<"L", "y">>,
           gradeLevel |-> <<>>,
           durationMinutes |-> 60,
           schoolName |-> <<"T", "H", "P", "T">>,
           numVariants |-> 2,
           customExamCodes |-> <<String(101), String(102)>>]>>,
     numVariants |-> 2]

\* the jobs behind a store: the one it names, analysed from its file
JobsOf(st) == IF st.jobId = <<>> THEN <<>> ELSE [n \in 1..st.jobId[1] |-> st.selectedFilePath]

InitForm ==
    /\ store \in {InitialStore, PersistedStore}
    /\ form = MountedForm(store)
    /\ view = StartView
    /\ hook = InitialHook
    /\ preview = InitialPreview
    /\ pending = [NothingPending EXCEPT !.jobs = JobsOf(store)]
    /\ array = <<>>
    /\ seed = NumFromInt(0)
    /\ ShuffleIdle
    /\ MixIdle

\* the form can be edited while the start page shows it without the modal
Editable == view.route = "start" /\ ~view.isErrorModalOpen

SetExamName(s) ==
    /\ Editable
    /\ form' = [form EXCEPT !.examName = s]
    /\ UNCHANGED <<store, view, hook, preview, pending>>
    /\ UNCHANGED shuffleVars
    /\ UNCHANGED mixVars

SetSubject(s) ==
    /\ Editable
    /\ form' = [form EXCEPT !.subject = s]
    /\ UNCHANGED <<store, view, hook, preview, pending>>
    /\ UNCHANGED shuffleVars
    /\ UNCHANGED mixVars

SetDuration(s) ==
    /\ Editable
    /\ form' = [form EXCEPT !.duration = s]
    /\ UNCHANGED <<store, view, hook, preview, pending>>
    /\ UNCHANGED shuffleVars
    /\ UNCHANGED mixVars

SetSchoolName(s) ==
    /\ Editable
    /\ form' = [form EXCEPT !.schoolName = s]
    /\ UNCHANGED <<store, view, hook, preview, pending>>
    /\ UNCHANGED shuffleVars
    /\ UNCHANGED mixVars

\* setNumVariants, and the effect that sizes the list of codes after it
SetNumVariants(s) ==
    /\ Editable
    /\ form' = [form EXCEPT !.numVariants = s, !.examCodes = ResizeCodes(s, form.examCodes)]
    /\ UNCHANGED <<store, view, hook, preview, pending>>
    /\ UNCHANGED shuffleVars
    /\ UNCHANGED mixVars

\* the onChange of the idx-th code input, idx counted from 0
SetExamCode(idx, s) ==
    /\ Editable
    /\ idx + 1 \in DOMAIN form.examCodes
    /\ form' = [form EXCEPT !.examCodes =
                    ResizeCodes(form.numVariants, [form.examCodes EXCEPT ![idx + 1] = s])]
    /\ UNCHANGED <<store, view, hook, preview, pending>>
    /\ UNCHANGED shuffleVars
    /\ UNCHANGED mixVars

\* handlePickFile with a dialog that returns selected at once
HandlePickFile(selected) ==
    /\ Editable
    /\ pending.dialog = <<>>
    /\ form' = FormAfterPick(form, selected)
    /\ store' = StoreAfterPick(store, selected, store.selectedFilePath)
    /\ UNCHANGED <<view, hook, preview, pending>>
    /\ UNCHANGED shuffleVars
    /\ UNCHANGED mixVars

\* handleSubmit with a backend that answers at once: outcome is what
\* analyze_docx does when it is called
HandleSubmit(outcome) ==
    /\ Editable
    /\ LET branch == SubmitBranch(form, store)
           saved == StoreAfterValidation(store, form)
           jobId == FreshJobId(pending.jobs)
           analysed == StoreAfterAnalysis(saved, outcome, jobId)
           hooked == HookAfterAnalysis(HookAtAnalysis(hook), outcome)
       IN  CASE branch = "invalid" ->
                  /\ view' = ShowError(view, ValidationError(form)[1])
                  /\ UNCHANGED <<store, hook, preview, pending>>
             [] branch = "noFile" ->
                  /\ view' = ShowError(view, MsgNoFile)
                  /\ store' = saved
                  /\ UNCHANGED <<hook, preview, pending>>
             [] branch = "noPath" ->
                  /\ view' = ShowError(view, MsgInvalidPath)
                  /\ store' = saved
                  /\ UNCHANGED <<hook, preview, pending>>
             [] branch = "cached" ->
                  /\ view' = Navigate(view, saved.jobId)
                  /\ store' = saved
                  /\ preview' = PreviewAfterEffect(InitialPreview, saved)
                  /\ pending' = [pending EXCEPT !.fetches =
                                    FetchesAfterEffect(pending.fetches, saved, saved.jobId)]
                  /\ UNCHANGED hook
             [] branch = "analyze" /\ outcome = "ok" ->
                  /\ view' = Navigate(view, analysed.jobId)
                  /\ store' = analysed
                  /\ hook' = hooked
                  /\ preview' = PreviewAfterEffect(InitialPreview, analysed)
                  /\ pending' = [pending EXCEPT
                        !.jobs = Append(pending.jobs, form.sourcePath),
                        !.fetches = FetchesAfterEffect(pending.fetches, analysed, analysed.jobId)]
             [] branch = "analyze" /\ outcome # "ok" ->
                  /\ view' = ViewAfterAnalysis(view, hooked)
                  /\ store' = analysed
                  /\ hook' = hooked
                  /\ pending' = [pending EXCEPT !.jobs = Append(pending.jobs, form.sourcePath)]
                  /\ UNCHANGED preview
    /\ UNCHANGED form
    /\ UNCHANGED shuffleVars
    /\ UNCHANGED mixVars

NextForm ==
    \/ \E s \in ExamNameTyped : SetExamName(s)
    \/ \E s \in SubjectTyped : SetSubject(s)
    \/ \E s \in DurationTyped : SetDuration(s)
    \/ \E s \in SchoolNameTyped : SetSchoolName(s)
    \/ \E s \in NumVariantsTyped : SetNumVariants(s)
    \/ \E idx \in 0..(DEFAULT_NUM_VARIANTS - 1), s \in ExamCodeTyped : SetExamCode(idx, s)
    \/ HandlePickFile(PickedPath)
    \/ \E outcome \in {"ok", "notOk"} : HandleSubmit(outcome)

SpecForm == InitForm /\ [][NextForm]_vars

(***************************************************************************)
(* MixStartPage filling in exam codes: the user types variant counts up to *)
(* MaxCodes and edits the first two codes.                                 *)
(***************************************************************************)
CountsTyped == {String(n) : n \in 0..MaxCodes}

NextFill ==
    \/ \E s \in CountsTyped : SetNumVariants(s)
    \/ \E idx \in 0..1, s \in ExamCodeTyped : SetExamCode(idx, s)

SpecFill == Init /\ [][NextFill]_vars

(***************************************************************************)
(* The three pages in use: files are picked, analysed, previewed and       *)
(* mixed, with every awaited call settling at a time of its own.           *)
(***************************************************************************)
OtherPath == <<"other.docx">>

Paths == {PickedPath, OtherPath}

\* a store persisted with metadata, with or without a file and its job
FlowStores ==
    {PersistedStore,
     [PersistedStore EXCEPT !.parsedData = <<ParsedOf(PersistedStore.jobId[1])>>],
     [PersistedStore EXCEPT !.selectedFilePath = <<>>, !.jobId = <<>>]}

InitFlow ==
    /\ store \in FlowStores
    /\ form = MountedForm(store)
    /\ view = StartView
    /\ hook = InitialHook
    /\ preview = InitialPreview
    /\ pending = [NothingPending EXCEPT !.jobs = JobsOf(store)]
    /\ array = <<>>
    /\ seed = NumFromInt(0)
    /\ ShuffleIdle
    /\ MixIdle

\* the start page takes clicks: it is shown, without the error modal and
\* without the loading overlay
StartPageOpen == Editable /\ ~hook.isAnalyzing

\* handlePickFile up to its await: the dialog opens
PickFileOpen ==
    /\ StartPageOpen
    /\ pending.dialog = <<>>
    /\ pending' = [pending EXCEPT !.dialog = <<[seen |-> store.selectedFilePath]>>]
    /\ UNCHANGED <<form, store, view, hook, preview>>
    /\ UNCHANGED shuffleVars
    /\ UNCHANGED mixVars

\* handlePickFile after its await: the dialog returns selected, <<>> when it
\* was cancelled; the page shown reacts to what changes in the store
PickFileSettle(selected) ==
    /\ pending.dialog # <<>>
    /\ LET after == StoreAfterPick(store, selected, pending.dialog[1].seen)
           shown == ResultGuard(view, after)
           reloads == view.route = "preview" /\ after.parsedData # store.parsedData
           arrives == view.route = "result" /\ shown.route = "preview"
       IN  /\ store' = after
           /\ form' = IF view.route = "start" THEN FormAfterPick(form, selected) ELSE form
           /\ view' = shown
           /\ preview' = IF arrives THEN PreviewAfterEffect(InitialPreview, after)
                         ELSE IF reloads THEN PreviewAfterEffect(preview, after)
                         ELSE preview
           /\ pending' = [pending EXCEPT
                 !.dialog = <<>>,
                 !.fetches = IF arrives \/ reloads
                             THEN FetchesAfterEffect(FetchesCancelled(@), after, shown.jobId)
                             ELSE @]
    /\ UNCHANGED hook
    /\ UNCHANGED shuffleVars
    /\ UNCHANGED mixVars

\* handleSubmit up to its first await
SubmitStart ==
    LET branch == SubmitBranch(form, store)
        saved == StoreAfterValidation(store, form)
        jobId == FreshJobId(pending.jobs)
    IN  CASE branch = "invalid" ->
               /\ view' = ShowError(view, ValidationError(form)[1])
               /\ UNCHANGED <<store, hook, preview, pending>>
          [] branch = "noFile" ->
               /\ view' = ShowError(view, MsgNoFile)
               /\ store' = saved
               /\ UNCHANGED <<hook, preview, pending>>
          [] branch = "noPath" ->
               /\ view' = ShowError(view, MsgInvalidPath)
               /\ store' = saved
               /\ UNCHANGED <<hook, preview, pending>>
          [] branch = "cached" ->
               /\ view' = Navigate(view, saved.jobId)
               /\ store' = saved
               /\ preview' = PreviewAfterEffect(InitialPreview, saved)
               /\ pending' = [pending EXCEPT !.fetches =
                                 FetchesAfterEffect(@, saved, saved.jobId)]
               /\ UNCHANGED hook
          [] branch = "analyze" ->
               /\ Len(pending.jobs) < MaxJobs
               /\ store' = saved
               /\ hook' = HookAtAnalysis(hook)
               /\ pending' = [pending EXCEPT
                     !.jobs = Append(@, form.sourcePath),
                     !.analyses = @ \cup {[jobId |-> jobId, sourcePath |-> form.sourcePath]}]
               /\ UNCHANGED <<view, preview>>

\* the button "Tiếp theo", enabled with a file and while nothing is analysed
ClickNext ==
    /\ StartPageOpen
    /\ form.hasFile
    /\ SubmitStart
    /\ UNCHANGED form
    /\ UNCHANGED shuffleVars
    /\ UNCHANGED mixVars

\* analyze after its await, and handleSubmit after it
AnalyzeSettle(outcome) ==
    /\ \E a \in pending.analyses :
          LET analysed == StoreAfterAnalysis(store, outcome, a.jobId)
              hooked == HookAfterAnalysis(hook, outcome)
          IN  /\ store' = analysed
              /\ hook' = hooked
              /\ IF outcome = "ok"
                 THEN /\ view' = Navigate(view, <<a.jobId>>)
                      /\ preview' = PreviewAfterEffect(InitialPreview, analysed)
                      /\ pending' = [pending EXCEPT
                            !.analyses = @ \ {a},
                            !.fetches = FetchesAfterEffect(@, analysed, <<a.jobId>>)]
                 ELSE /\ view' = ViewAfterAnalysis(view, hooked)
                      /\ pending' = [pending EXCEPT !.analyses = @ \ {a}]
                      /\ UNCHANGED preview
    /\ UNCHANGED form
    /\ UNCHANGED shuffleVars
    /\ UNCHANGED mixVars

\* get_parsed settles: with the document when ok, with an error otherwise;
\* a call whose effect was cleaned up changes nothing
ParsedArrives(ok) ==
    /\ \E r \in pending.fetches :
          /\ pending' = [pending EXCEPT !.fetches = @ \ {r}]
          /\ IF r.cancelled
             THEN UNCHANGED <<store, preview>>
             ELSE IF ok
             THEN /\ preview' = [preview EXCEPT !.parsed = <<ParsedOf(r.jobId)>>,
                                                 !.loading = FALSE]
                  /\ store' = setParsedData(store, <<ParsedOf(r.jobId)>>)
             ELSE /\ preview' = [preview EXCEPT !.error = <<MsgThrown>>, !.loading = FALSE]
                  /\ UNCHANGED store
    /\ UNCHANGED <<form, view, hook>>
    /\ UNCHANGED shuffleVars
    /\ UNCHANGED mixVars

\* the error modal's button: setIsErrorModalOpen(false)
CloseErrorModal ==
    /\ view.route = "start"
    /\ view.isErrorModalOpen
    /\ view' = [view EXCEPT !.isErrorModalOpen = FALSE]
    /\ UNCHANGED <<form, store, hook, preview, pending>>
    /\ UNCHANGED shuffleVars
    /\ UNCHANGED mixVars

\* the preview page takes clicks: it is shown without a modal over it
PreviewPageOpen ==
    view.route = "preview" /\ ~preview.showConfirmModal /\ ~preview.showProgress

\* "Quay lại" on the preview page: navigate("/"), the start page mounts
PreviewBack ==
    /\ PreviewPageOpen
    /\ view' = StartView
    /\ form' = MountedForm(store)
    /\ hook' = InitialHook
    /\ preview' = InitialPreview
    /\ pending' = [pending EXCEPT !.fetches = FetchesCancelled(@)]
    /\ UNCHANGED store
    /\ UNCHANGED shuffleVars
    /\ UNCHANGED mixVars

\* "Trộn ngay": setShowConfirmModal(true)
OpenConfirm ==
    /\ PreviewPageOpen
    /\ preview' = [preview EXCEPT !.showConfirmModal = TRUE]
    /\ UNCHANGED <<form, store, view, hook, pending>>
    /\ UNCHANGED shuffleVars
    /\ UNCHANGED mixVars

\* handleConfirmMix up to the call of mixExams; without a parsed document it
\* returns at once
ConfirmMix ==
    /\ view.route = "preview"
    /\ preview.showConfirmModal
    /\ preview.parsed # <<>>
    /\ preview' = [preview EXCEPT !.showConfirmModal = FALSE, !.showProgress = TRUE]
    /\ pending' = [pending EXCEPT !.mixes =
                      @ \cup {[args |-> MixArgs(preview.parsed[1], store.numVariants),
                               saved |-> FALSE]}]
    /\ UNCHANGED <<form, store, view, hook>>
    /\ UNCHANGED shuffleVars
    /\ UNCHANGED mixVars

\* mixExams settles: with the variants, which are saved, or with an error
MixSettle(ok, base) ==
    /\ \E m \in pending.mixes :
          /\ ~m.saved
          /\ IF ok
             THEN /\ store' = setMixedExams(store, <<BackendMix(m.args, base)>>)
                  /\ pending' = [pending EXCEPT !.mixes = (@ \ {m}) \cup {[m EXCEPT !.saved = TRUE]}]
                  /\ UNCHANGED preview
             ELSE /\ preview' = [preview EXCEPT !.showProgress = FALSE]
                  /\ pending' = [pending EXCEPT !.mixes = @ \ {m}]
                  /\ UNCHANGED store
    /\ UNCHANGED <<form, view, hook>>
    /\ UNCHANGED shuffleVars
    /\ UNCHANGED mixVars

\* handleConfirmMix after the 400 ms that follow setMixedExams:
\* setShowProgress(false); navigate("/result")
MixNavigate ==
    /\ LET shown == ResultGuard([view EXCEPT !.route = "result", !.jobId = <<>>], store)
       IN  /\ \E m \in pending.mixes :
                 /\ m.saved
                 /\ pending' = [pending EXCEPT
                       !.mixes = @ \ {m},
                       !.fetches = FetchesAfterEffect(FetchesCancelled(@), store, shown.jobId)]
           /\ view' = shown
           /\ preview' = IF shown.route = "preview"
                         THEN PreviewAfterEffect(InitialPreview, store)
                         ELSE [preview EXCEPT !.showProgress = FALSE]
    /\ UNCHANGED <<form, store, hook>>
    /\ UNCHANGED shuffleVars
    /\ UNCHANGED mixVars

\* "Quay lại" on the result page: navigate(`/preview/${jobId || ""}`)
ResultBack ==
    /\ view.route = "result"
    /\ view' = Navigate(view, store.jobId)
    /\ preview' = PreviewAfterEffect(InitialPreview, store)
    /\ pending' = [pending EXCEPT !.fetches = FetchesAfterEffect(@, store, store.jobId)]
    /\ UNCHANGED <<form, store, hook>>
    /\ UNCHANGED shuffleVars
    /\ UNCHANGED mixVars

NextFlow ==
    \/ PickFileOpen
    \/ \E selected \in Paths \cup {<<>>} : PickFileSettle(selected)
    \/ ClickNext
    \/ \E outcome \in AnalysisOutcomes : AnalyzeSettle(outcome)
    \/ CloseErrorModal
    \/ \E ok \in BOOLEAN : ParsedArrives(ok)
    \/ PreviewBack
    \/ OpenConfirm
    \/ ConfirmMix
    \/ \E ok \in BOOLEAN, base \in MixBases : MixSettle(ok, base)
    \/ MixNavigate
    \/ ResultBack

SpecFlow == InitFlow /\ [][NextFlow]_vars

\* an awaited call of analyze_docx or of mix_exams settles: its promise
\* resolves or rejects; the 400 ms timer awaited after setMixedExams fires
SpecFlowLive ==
    /\ SpecFlow
    /\ WF_vars(\E outcome \in AnalysisOutcomes : AnalyzeSettle(outcome))
    /\ WF_vars(\E ok \in BOOLEAN, base \in MixBases : MixSettle(ok, base))
    /\ WF_vars(MixNavigate)

(***************************************************************************)
(* The mix store on its own: its actions called in any order.              *)
(***************************************************************************)
\* the variants of a mix of the document of job 1
SomeMixedExams == <<[examCode |-> String(132), job |-> 1]>>

\* a call of a store action other than reset
StoreSet ==
    /\ store' \in
          {setSelectedFile(store, path) : path \in {<<>>, PickedPath}}
            \cup {setJobId(store, id) : id \in {<<>>, <<1>>, <<2>>}}
            \cup {setParsedData(store, data) : data \in {<<>>, <<ParsedOf(1)>>}}
            \cup {setIsAnalyzing(store, analyzing) : analyzing \in BOOLEAN}
            \cup {setMixedExams(store, exams) : exams \in {<<>>, <<SomeMixedExams>>}}
            \cup {setNumVariants(store, PersistedStore.numVariants),
                  setExamMetadata(store, PersistedStore.examMetadata[1]),
                  clearAnalysis(store)}
    /\ UNCHANGED <<form, view, hook, preview, pending>>
    /\ UNCHANGED shuffleVars
    /\ UNCHANGED mixVars

Reset ==
    /\ store' = reset(store)
    /\ UNCHANGED <<form, view, hook, preview, pending>>
    /\ UNCHANGED shuffleVars
    /\ UNCHANGED mixVars

NextStore ==
    \/ StoreSet
    \/ Reset

SpecStore == Init /\ [][NextStore]_vars

(***************************************************************************)
(* mixExam called a second time with the arguments of the first call.      *)
(***************************************************************************)
\* the documents mixed twice: MaxQuestions questions of four options each
RerunDocs == DocsOf(MaxQuestions, 4)

\* the caller keeps what the first call returned and calls mixExam again
\* with the same parsedDoc and numVariants
MixExamAgain ==
    /\ pc = "returned"
    /\ firstRun = <<>>
    /\ firstRun' = <<variants>>
    /\ variants' = <<>>
    /\ examCodes' = <<>>
    /\ optionSeeds' = <<>>
    /\ v' = 0
    /\ pc' = "codes"
    /\ UNCHANGED <<parsedDoc, numVariants, clock, table>>
    /\ UNCHANGED shuffleVars
    /\ UNCHANGED pageVars

NextRerun ==
    \/ \E doc \in RerunDocs, count \in VariantCounts : MixExamCall(doc, count)
    \/ GenerateExamCodesLoop
    \/ GenerateExamCodesReturn
    \/ BuildVariant
    \/ MixExamReturn
    \/ MixExamAgain

SpecRerun == Init /\ [][NextRerun]_vars

(***************************************************************************)
(* mixExam asked for about as many variants as there are exam codes.       *)
(* Math.random() either gives a code not drawn before, the lowest one, as  *)
(* long as there is one, or repeats the code 100.                          *)
(***************************************************************************)
EmptyDoc == [questions |-> <<>>]

\* variant counts around the number of codes
CodeCounts == {CodeSpace - 1, CodeSpace, CodeSpace + 1}

\* the buckets floor(Math.random() * 900) falls in: the one numbered like
\* the size of the Set, and the first
DenseBuckets(codes) == {Len(codes) % CodeSpace, 0}

\* one iteration of generateExamCodes' while loop
GenerateExamCodesLoopDense ==
    /\ pc = "codes"
    /\ CodesWanted(examCodes, numVariants)
    /\ \E k \in DenseBuckets(examCodes) : examCodes' = SetAdd(examCodes, generateExamCode(k))
    /\ UNCHANGED <<parsedDoc, numVariants, pc, v, variants, clock, table, firstRun, optionSeeds>>
    /\ UNCHANGED shuffleVars
    /\ UNCHANGED pageVars

NextCodes ==
    \/ \E count \in CodeCounts : MixExamCall(EmptyDoc, count)
    \/ GenerateExamCodesLoopDense
    \/ GenerateExamCodesReturn
    \/ BuildVariant
    \/ MixExamReturn

SpecCodes == Init /\ [][NextCodes]_vars

(***************************************************************************)
(* mixExam on long exams: as many questions as the seeds of two variants   *)
(* are apart, and one more.                                                *)
(***************************************************************************)
\* a document of n questions with two options each, the first one correct
LargeDocOf(n) == [questions |-> [k \in 1..n |-> QuestionOf(k, 2, 1)]]

LargeDocs == {LargeDocOf(n) : n \in {1000, 1001}}

NextLarge ==
    \/ \E doc \in LargeDocs, count \in VariantCounts : MixExamCall(doc, count)
    \/ GenerateExamCodesLoop
    \/ GenerateExamCodesReturn
    \/ BuildVariant
    \/ MixExamReturn

SpecLarge == Init /\ [][NextLarge]_vars

(***************************************************************************)
(* Properties.                                                             *)
(***************************************************************************)
Count(sq, e) == Cardinality({k \in DOMAIN sq : sq[k] = e})

\* same length and same multiset of elements
IsPermutation(out, in) ==
    /\ Len(out) = Len(in)
    /\ \A e \in Elems \cup {Undefined} : Count(out, e) = Count(in, e)

\* C2: for every integer seed, negative and very large ones included, what
\* shuffleArray returns is a permutation of its input: same length, same
\* multiset of elements.
C2_ShuffleIsPermutation ==
    \A k \in DOMAIN returned : IsPermutation(returned[k], array)

StreamsAgree(a, b) ==
    \A k \in DOMAIN a \cap DOMAIN b : a[k] = b[k]

Returned == pc \in {"returned", "rendered"}

\* the source question a mixed question was made from
SourceOf(q) ==
    parsedDoc.questions[CHOOSE k \in DOMAIN parsedDoc.questions :
                            parsedDoc.questions[k].number = q.originalNumber]

\* the questions of all returned variants
MixedQuestions ==
    {variants[e].questions[k] : e \in DOMAIN variants, k \in 1..Len(parsedDoc.questions)}

\* a source question whose correct_label is the label of none of its options
Unmatched(sq) == \A k \in DOMAIN sq.options : sq.options[k].label # sq.correct_label

\* C1: in every variant mixExam returns, every question's correctAnswer is
\* the new label of the option whose originalLabel is the source question's
\* correct_label.
C1_CorrectAnswerFollowsOption ==
    Returned =>
        \A q \in MixedQuestions :
            \E k \in DOMAIN q.options :
                /\ q.options[k].originalLabel = SourceOf(q).correct_label
                /\ q.options[k].label = q.correctAnswer

\* C3: when a source question's correct_label matches none of its options,
\* mixExam fails: it does not return, and it builds no variant.
C3_UnmatchedLabelFails ==
    (\E k \in DOMAIN parsedDoc.questions : Unmatched(parsedDoc.questions[k]))
        => (~Returned /\ variants = <<>>)

\* what a table cell shows for a label: "-" for an empty one
Shown(label) == IF label = "" THEN "-" ELSE label

TableCells ==
    {table[r].original : r \in DOMAIN table}
        \cup {table[r].cells[e] : r \in DOMAIN table, e \in DOMAIN variants}

\* C17: the rendered answer-key table has one row per source question and
\* every cell shows a label, never the placeholder "-".
C17_EveryCellPopulated ==
    pc = "rendered" =>
        /\ Len(table) = Len(parsedDoc.questions)
        /\ "-" \notin TableCells

\* C5: for every source exam, one without questions included, and every
\* variant count V >= 1, mixExam returns exactly V variants and each has as
\* many questions as the source exam.
C5_VariantAndQuestionCounts ==
    (Returned /\ numVariants >= 1) =>
        /\ Len(variants) = numVariants
        /\ \A e \in DOMAIN variants :
              Len(variants[e].questions) = Len(parsedDoc.questions)

\* C5 witness: mixExam returned for several variants of an exam with several
\* questions.
C5_Witness ==
    /\ Returned
    /\ numVariants >= 2
    /\ Len(parsedDoc.questions) >= 2
    /\ Len(variants) = numVariants

\* C6: in every returned variant each source question number occurs exactly
\* once among the originalNumber values, and nothing else occurs.
C6_EachQuestionOnce ==
    Returned =>
        \A e \in DOMAIN variants :
            /\ Len(variants[e].questions) = Len(parsedDoc.questions)
            /\ \A s \in DOMAIN parsedDoc.questions :
                  Cardinality({k \in DOMAIN variants[e].questions :
                      variants[e].questions[k].originalNumber
                          = parsedDoc.questions[s].number}) = 1

\* C6 witness: a returned variant whose question order differs from the
\* source order.
C6_Witness ==
    /\ Returned
    /\ \E e \in DOMAIN variants : \E k \in DOMAIN variants[e].questions :
          variants[e].questions[k].originalNumber # parsedDoc.questions[k].number

\* the canonical labels by position
Letters == <<"A", "B", "C", "D", "E", "F", "G", "H">>

\* C7: in every mixed question the new option labels are the first m letters
\* A, B, C, ... in order, m the number of source options, and every original
\* label occurs exactly once among the originalLabel values.
C7_LabelsContiguous ==
    Returned =>
        \A q \in MixedQuestions :
            /\ Len(q.options) = Len(SourceOf(q).options)
            /\ \A k \in DOMAIN q.options : q.options[k].label = Letters[k]
            /\ \A s \in DOMAIN SourceOf(q).options :
                  Cardinality({k \in DOMAIN q.options :
                      q.options[k].originalLabel = SourceOf(q).options[s].label}) = 1

\* C8: the exam codes of the variants one mixExam call returns are pairwise
\* distinct.
C8_ExamCodesDistinct ==
    Returned =>
        \A e, f \in DOMAIN variants :
            e # f => variants[e].examCode # variants[f].examCode

\* C8 witness: mixExam returned more than one variant.
C8_Witness == Returned /\ Len(variants) >= 2

\* C9: within one variant the displayNumber values are 1..N in list order.
C9_DisplayNumbersInOrder ==
    Returned =>
        \A e \in DOMAIN variants : \A k \in DOMAIN variants[e].questions :
            variants[e].questions[k].displayNumber = k

\* C9 witness: a returned variant with several questions, not in source order.
C9_Witness ==
    /\ Returned
    /\ \E e \in DOMAIN variants :
          /\ Len(variants[e].questions) >= 2
          /\ variants[e].questions[1].originalNumber # 1

\* the two low limbs of a magnitude: its residue modulo 2^32
Low32(x) == [k \in LimbIdx |-> IF k <= 2 THEN x[k] ELSE 0]

\* 2^32 - x for a magnitude 0 < x < 2^32
Complement32(x) == Low32(MagSub(MagPow2(32), x))

\* (state * 1664525 + 1013904223) mod 2^32 over the integers: nothing is
\* rounded, and the residue of a negative number is not negative
ResidueOfStep(state) ==
    LET product == MagAdd(MagMulSmall(state.mag, LcgA % Base),
                          MagShiftLimbs(MagMulSmall(state.mag, LcgA \div Base), 1))
        increment == MagFromInt(LcgC)
    IN  IF ~state.neg THEN Num(FALSE, Low32(MagAdd(product, increment)))
        ELSE IF ~MagLess(increment, product)
             THEN Num(FALSE, Low32(MagSub(increment, product)))
        ELSE LET low == Low32(MagSub(product, increment))
             IN  IF low = ZeroMag THEN Num(FALSE, ZeroMag)
                 ELSE Num(FALSE, Complement32(low))

\* the state a generator held before it produced its k-th value
StateBefore(g, k) == IF k = 1 THEN seed ELSE gens[g].stream[k - 1]

\* C12: for every integer seed, every state of a generator made by
\* seededRandom(seed) is an integer in 0 .. 2^32-1, so that the value
\* state / 2^32 it returns lies in [0,1), and it is the residue
\* (state * 1664525 + 1013904223) mod 2^32 of the state before.
C12_StateIsResidue ==
    \A g \in DOMAIN gens : \A k \in DOMAIN gens[g].stream :
        /\ ~gens[g].stream[k].neg
        /\ TopLimb(gens[g].stream[k].mag) <= 2
        /\ gens[g].stream[k] = ResidueOfStep(StateBefore(g, k))

\* C11: running the mix twice on the same source exam with the same variant
\* count reproduces the same variants: question order, option order, correct
\* answers and exam codes; nothing but the arguments decides the result.
C11_RerunReproduces ==
    (Returned /\ firstRun # <<>>) => variants = firstRun[1]

\* C13: a call of mixExam with a variant count V <= 0 is rejected: it builds
\* no exam code and no variant, and it does not return a result.
C13_NonPositiveCountRejected ==
    (pc # "idle" /\ numVariants <= 0) =>
        (~Returned /\ variants = <<>> /\ examCodes = <<>>)

\* the options of the questions of the variants built so far
BuiltOptions ==
    UNION {{variants[e].questions[k].options[o] :
                o \in DOMAIN variants[e].questions[k].options} :
           e \in DOMAIN variants, k \in 1..Len(parsedDoc.questions)}

\* C14: no mixed option is ever built with a missing or undefined label, and
\* mixExam does not return for a document that has a question with more
\* options than there are labels (A..F).
C14_AlphabetExceededFails ==
    /\ \A opt \in BuiltOptions : opt.label # Undefined
    /\ (\E k \in DOMAIN parsedDoc.questions :
            Len(parsedDoc.questions[k].options) > Len(labels)) => ~Returned

\* C15: exam-code generation terminates for every count: while the loop of
\* generateExamCodes still wants codes there is a code left that it has not
\* drawn (a request beyond the 900 codes ends with an error instead of
\* waiting for a 901st), and once it has returned there are exactly as many
\* codes as were requested.
C15_CodeGenerationEnds ==
    /\ (pc = "codes" /\ CodesWanted(examCodes, numVariants)) => Len(examCodes) < CodeSpace
    /\ (pc \in {"variants", "returned"} /\ numVariants >= 0) => Len(examCodes) = numVariants

\* a step of handleSubmit: the only step that opens the modal or navigates
Submitted == view' # view

\* the codes that occur more than once among the codes given, trimmed
RepeatedCodes(f) ==
    {Trim(f.examCodes[k]) : k \in {h \in DOMAIN f.examCodes :
        \E g \in DOMAIN f.examCodes : g # h /\ Trim(f.examCodes[g]) = Trim(f.examCodes[h])}}

\* a string of digits that denotes an integer above 0
PositiveInteger(s) ==
    /\ s # <<>>
    /\ \A k \in DOMAIN s : IsDigit(s[k])
    /\ parseInt(s).value > 0

\* the checks that come before the codes are looked at pass, and every code
\* is given
CodesReached(f) ==
    /\ Trim(f.examName) # <<>>
    /\ Trim(f.subject) # <<>>
    /\ PositiveInteger(f.duration)
    /\ Trim(f.schoolName) # <<>>
    /\ PositiveInteger(f.numVariants)
    /\ \A k \in DOMAIN f.examCodes : Trim(f.examCodes[k]) # <<>>

\* C16: when the exam codes given in the form contain a repeat, submitting
\* fails with an error that names a repeated code, before anything is saved
\* or mixed: the modal opens on the start page and the store stays as it was.
C16_DuplicateCodeNamed ==
    [][(Submitted /\ CodesReached(form) /\ RepeatedCodes(form) # {}) =>
          /\ view'.route = "start"
          /\ view'.isErrorModalOpen
          /\ store' = store
          /\ \E k \in DOMAIN view'.errorMessage[1].names :
                view'.errorMessage[1].names[k] \in RepeatedCodes(form)]_vars

\* the conditions of a valid submission: name and subject given, duration
\* and number of variants integers above 0, every code given, no code
\* repeated, a file selected
AllConditionsHold(f) ==
    /\ Trim(f.examName) # <<>>
    /\ Trim(f.subject) # <<>>
    /\ PositiveInteger(f.duration)
    /\ PositiveInteger(f.numVariants)
    /\ \A k \in DOMAIN f.examCodes : Trim(f.examCodes[k]) # <<>>
    /\ RepeatedCodes(f) = {}
    /\ f.hasFile

\* C20: submitting the start form changes examMetadata and numVariants in
\* the store only when every validation condition holds; when one fails the
\* error modal opens and both stay as they were.
C20_SavedOnlyWhenValid ==
    [][Submitted =>
          /\ (store'.examMetadata # store.examMetadata \/ store'.numVariants # store.numVariants)
                => AllConditionsHold(form)
          /\ ~AllConditionsHold(form) =>
                /\ view'.isErrorModalOpen
                /\ store'.examMetadata = store.examMetadata
                /\ store'.numVariants = store.numVariants]_vars

\* the seeds handed to shuffleOptions in the run so far
SeedsUsed ==
    {optionSeeds[e][k] : e \in DOMAIN optionSeeds, k \in 1..Len(parsedDoc.questions)}

\* C19: within one run of mixExam the seeds handed to shuffleOptions are
\* pairwise distinct over all pairs of variant and question index: there are
\* as many different seeds as there are pairs.
C19_OptionSeedsDistinct ==
    Cardinality(SeedsUsed) = Len(optionSeeds) * Len(parsedDoc.questions)

\* the questions of the variants built so far
BuiltQuestions ==
    {variants[e].questions[k] : e \in DOMAIN variants, k \in 1..Len(parsedDoc.questions)}

\* every mixed option carries the content of the source option whose label
\* is its originalLabel, every mixed question the stem of its source question
ContentRelocated ==
    \A q \in BuiltQuestions :
        /\ q.stem = SourceOf(q).stem
        /\ \A k \in DOMAIN q.options :
              /\ \E o \in DOMAIN SourceOf(q).options :
                    SourceOf(q).options[o].label = q.options[k].originalLabel
              /\ \A o \in DOMAIN SourceOf(q).options :
                    SourceOf(q).options[o].label = q.options[k].originalLabel
                        => q.options[k].content = SourceOf(q).options[o].content

\* C18: mixing only relocates content: each mixed option has the unmodified
\* content of the source option its originalLabel names, each mixed question
\* the unmodified stem of its source question, and no step of a mixExam call
\* changes the parsed document it was given.
C18_OnlyRelocates ==
    /\ []ContentRelocated
    /\ [][pc # "idle" => parsedDoc' = parsedDoc]_vars

\* C18 witness: mixExam returned a variant in which questions changed places
\* and an option of a question with several options got a new label.
C18_Witness ==
    /\ Returned
    /\ \E e \in DOMAIN variants : \E k \in DOMAIN variants[e].questions :
          /\ variants[e].questions[k].originalNumber # k
          /\ \E o \in DOMAIN variants[e].questions[k].options :
                variants[e].questions[k].options[o].originalLabel
                    # variants[e].questions[k].options[o].label

\* C24: in every iteration of shuffleArray's loop, for every seed, the swap
\* index j drawn lies in 0..i for the i of that iteration, so the swap
\* exchanges two positions of the array.
C24_SwapIndexInRange ==
    [][(call # <<>> /\ call' # <<>> /\ call'[1].i = call[1].i - 1) =>
          (0 <= call'[1].j /\ call'[1].j <= call[1].i)]_vars

\* the variant count field holds an integer n >= 0
CountGiven(f) == ~parseInt(f.numVariants).nan /\ parseInt(f.numVariants).value >= 0

\* the list of codes has as many entries as the variant count field says
CodesFollowCount(f) ==
    CountGiven(f) => Len(f.examCodes) = parseInt(f.numVariants).value

\* the saved metadata has one code per variant, and the store's numVariants
\* is the metadata's
SavedRecordConsistent ==
    store.examMetadata # <<>> =>
        /\ Len(store.examMetadata[1].customExamCodes) = store.examMetadata[1].numVariants
        /\ store.numVariants = store.examMetadata[1].numVariants

\* C21: the list of exam codes follows the variant count: whenever the field
\* holds an integer n >= 0 the list has n entries, an edit of the field keeps
\* the codes that were there up to the n-th and cuts the rest, and every
\* metadata record saved has as many customExamCodes as numVariants, which
\* is also the store's numVariants.
C21_CodesFollowVariantCount ==
    /\ [](CodesFollowCount(form) /\ SavedRecordConsistent)
    /\ [][(form'.numVariants # form.numVariants /\ CountGiven(form')) =>
              \A k \in DOMAIN form'.examCodes :
                  k \in DOMAIN form.examCodes => form'.examCodes[k] = form.examCodes[k]]_vars

\* C21 witness: on a store that had no metadata, the count was edited from 4
\* to 2 and the form was saved with two codes.
C21_Witness ==
    /\ store.examMetadata # <<>>
    /\ store.examMetadata[1].durationMinutes = DEFAULT_DURATION
    /\ store.examMetadata[1].numVariants = 2
    /\ Len(store.examMetadata[1].customExamCodes) = 2

\* every code of the list is the one the form fills in at its position
AutoFilled(codes) == \A k \in DOMAIN codes : codes[k] = DefaultCodeAt(k - 1)

\* C30: the exam codes the start form fills in are pairwise distinct,
\* whatever variant count the list was raised to.
C30_AutoFilledCodesDistinct ==
    AutoFilled(form.examCodes) =>
        \A k, h \in DOMAIN form.examCodes : k # h => form.examCodes[k] # form.examCodes[h]

\* C23: reset() resets everything: after it, from any state, every field of
\* the store has its initial value.
C23_ResetRestoresInitialState ==
    [][Reset => store' = InitialStore]_vars

\* the step in which the file dialog returns
DialogReturns == pending.dialog # <<>> /\ pending'.dialog = <<>>

C27_JobOfSelectedFile ==
    store.jobId # <<>> =>
        /\ store.jobId[1] \in DOMAIN pending.jobs
        /\ pending.jobs[store.jobId[1]] = store.selectedFilePath

\* C26: an analysis that set isAnalyzing is followed by isAnalyzing false,
\* whichever way analyze_docx settles; when it settles the hook's error is
\* null on ok and set otherwise, and the store's jobId is written only on ok
C26_AnalysisAlwaysEnds ==
    /\ hook.isAnalyzing ~> ~hook.isAnalyzing
    /\ [][\A outcome \in AnalysisOutcomes :
             AnalyzeSettle(outcome) =>
                 /\ ~hook'.isAnalyzing
                 /\ outcome = "ok" => hook'.error = <<>>
                 /\ outcome # "ok" => hook'.error # <<>> /\ store'.jobId = store.jobId]_vars
    /\ [][(store'.jobId # store.jobId /\ store'.jobId # <<>>) => AnalyzeSettle("ok")]_vars

\* an analysis threw and has ended: the overlay is gone and the error is shown
C26_Witness ==
    /\ Len(pending.jobs) > 1
    /\ pending.analyses = {}
    /\ ~hook.isAnalyzing
    /\ hook.error = <<MsgThrown>>
    /\ view.isErrorModalOpen

\* C28: the document the preview page shows, and the one it hands to a mix,
\* is the document of the job in its route
C28_PreviewShowsRouteJob ==
    view.route = "preview" =>
        /\ preview.parsed # <<>> => preview.parsed[1].job = view.jobId[1]
        /\ \A m \in pending.mixes : m.args.parsedDoc.job = view.jobId[1]

\* C22: a mix request carries the customExamCodes saved in examMetadata, and
\* variant v of the stored result carries the v-th of them
C22_MixUsesCustomCodes ==
    /\ \A m \in pending.mixes :
          /\ "customExamCodes" \in DOMAIN m.args
          /\ m.args.customExamCodes = store.examMetadata[1].customExamCodes
    /\ (store.mixedExams # <<>> /\ store.examMetadata # <<>>) =>
          \A nth \in DOMAIN store.mixedExams[1] :
              /\ nth \in DOMAIN store.examMetadata[1].customExamCodes
              /\ store.mixedExams[1][nth].examCode = store.examMetadata[1].customExamCodes[nth]

\* the store holds at least one mixed exam
HasMixedExams(st) == st.mixedExams # <<>> /\ st.mixedExams[1] # <<>>

====
